---- MODULE Spec2Model ----
(***************************************************************************)
(* Pagination of the Pivotal Tracker client: StoryService / EpicService    *)
(* List (eager) and Iterate + StoryCursor.Next / EpicCursor.Next (lazy)    *)
(* over the generic cursor, and the epic CRUD request paths.               *)
(*                                                                         *)
(* The generic cursor (newCursor, cursor.next, cursor.all) is called by    *)
(* stories.go and epics.go but its file is not among the sources; it is    *)
(* modelled from sections 3, 4.1 and 4.2 of the specification.             *)
(***************************************************************************)
EXTENDS Integers, Sequences, FiniteSets, TLC

\* Number of items to fetch at once when getting paginated response.
PageLimit == 10

\* Largest number of items the server's collection holds.
MaxTotal == 12

\* Largest page the server is willing to return in one response; the
\* smallest is PageLimit (the server never truncates a default-size page).
MaxPageCap == 11

\* Cap on the requests of one List call; the drain never reaches it.
MaxReqs == MaxTotal + 3

\* Most requests sent through one typed cursor.
MaxFetches == 4

\* Largest project / epic / story id used in a single-resource request.
MaxId == 11

VARIABLES
  kind,       \* "stories" or "epics": the service the calls go through
  items,      \* the server's collection, in server order
  pageCap,    \* the server's own maximum page size
  lpc,        \* List: "idle", "draining" (inside cursor.all) or "done"
  lcur,       \* List: its cursor [limit, first, offset, total]
  lacc,       \* List: the slice cursor.all appends to (stories / epics)
  lret,       \* List: what it returned, [stories, err]
  lreqs,      \* List: HTTP requests sent by the current call
  lreq,       \* List: its last item request [resource, offset, limit]
  ldirty,     \* the collection changed since the current List call began
  cst,        \* StoryCursor/EpicCursor: "none", "open" or "failed"
  ccur,       \* the typed cursor's embedded *cursor
  buff,       \* the typed cursor's buff
  delivered,  \* the items Next has returned so far, in order of return
  creqs,      \* HTTP requests sent through the typed cursor
  ret,        \* what the last Next returned, [item, err]
  tick,       \* flips each time a call of Next returns
  grown,      \* the server gained an item since the last Next returned
  cpc,        \* per caller of Next: "idle", "recv" or "pop"
  roff,       \* per caller: the offset its request in flight was built with
  raced,      \* a call of Next began while another was in progress
  crud        \* the last single-resource request [op, method, path]

serverVars == <<kind, items, pageCap>>
listVars == <<lpc, lcur, lacc, lret, lreqs, lreq, ldirty>>
iterVars == <<cst, ccur, buff, delivered, creqs, ret, tick, grown>>
concVars == <<cpc, roff, raced>>
vars == <<serverVars, listVars, iterVars, concVars, crud>>

Min(a, b) == IF a < b THEN a ELSE b

-----------------------------------------------------------------------------
(* The remote service: it answers a request for (offset, limit) with the   *)
(* items at those positions, at most pageCap of them, and with the number  *)
(* of items it holds at that moment.                                       *)

\* The id of the item at position k of the collection (ids are not sorted).
ItemAt(k) == IF k % 2 = 1 THEN k + 1 ELSE k - 1

Collection(n) == [k \in 1..n |-> ItemAt(k)]

\* The page the server returns for a request with ?offset=..&limit=..
ServerPage(req) ==
  LET hi == Min(req.offset + Min(req.limit, pageCap), Len(items))
  IN  IF req.offset >= hi THEN <<>> ELSE SubSeq(items, req.offset + 1, hi)

\* The total the server reports with every response.
ServerTotal == Len(items)

-----------------------------------------------------------------------------
(* The generic cursor.                                                     *)
(*                                                                         *)
(* newCursor sends a request only when it has to size the cursor, i.e. for *)
(* the fetch-all limit 0; cursor.next sends one request per call, at the   *)
(* current offset, and keeps no end-of-data state; cursor.all calls it     *)
(* while the offset is below the total of the latest response.             *)

\* newCursor sends a sizing request only for the fetch-all limit 0.
NewCursorSizes(limit) == limit = 0

\* newCursor: a cursor at offset 0. `first` is the total reported by the
\* very first (sizing) call.
NewCursor(limit, first) ==
  [limit |-> limit, first |-> first, offset |-> 0, total |-> first]

\* The limit parameter of the next item request: the configured limit, or
\* for the fetch-all sentinel 0 the total reported on the very first call.
EffectiveLimit(c) == IF c.limit = 0 THEN c.first ELSE c.limit

\* newStoriesRequestFunc / newEpicsRequestFunc: the collection addressed.
RequestFunc == [resource |-> kind]

\* The request cursor.next sends for a cursor whose offset reads `off`.
ItemRequest(c, off) ==
  [resource |-> RequestFunc.resource, offset |-> off,
   limit |-> EffectiveLimit(c)]

\* cursor.next after a successful response: offset += limit, or
\* offset += len(page) for the fetch-all sentinel; total refreshed.
CursorAdvance(c, page, total) ==
  [c EXCEPT !.offset = IF c.limit = 0 THEN c.offset + Len(page)
                                      ELSE c.offset + c.limit,
            !.total = total]

\* cursor.all testing the offset against the total of the first call.
DrainedByFirstTotal(c) == c.offset >= c.first

\* cursor.all's loop test: drained once offset reaches the latest total.
Drained(c) == c.offset >= c.total

NoRequest == [resource |-> "", offset |-> 0, limit |-> 0]

-----------------------------------------------------------------------------
(* StoryService.List / EpicService.List.                                   *)

\* List with the default page size where the fetch-all 0 belongs.
ListLimitPaged == PageLimit

\* The limit List hands to newCursor.
ListLimit == 0

\* List with `return nil, nil` as its last statement.
ListReturnNothing(stories, err) == [stories |-> <<>>, err |-> err]

\* List returning what it accumulated together with the error.
ListReturnPartial(stories, err) == [stories |-> stories, err |-> err]

\* List's return statements: (nil, err) on error, (stories, nil) else.
ListReturn(stories, err) ==
  [stories |-> IF err THEN <<>> ELSE stories, err |-> err]

\* List up to and including the first test of cursor.all's loop: newCursor
\* sends the sizing request (fetch-all limit only), which may fail.
ListCall ==
  /\ lpc # "draining"
  /\ ldirty' = FALSE
  /\ lacc' = <<>>
  /\ lreq' = NoRequest
  /\ \E ok \in BOOLEAN :
       LET sizing == NewCursorSizes(ListLimit)
           c == NewCursor(ListLimit, IF sizing THEN ServerTotal ELSE 0)
       IN  /\ lreqs' = IF sizing THEN 1 ELSE 0
           /\ IF sizing /\ ~ok
                THEN /\ lcur' = NewCursor(ListLimit, 0)
                     /\ lret' = ListReturn(<<>>, TRUE)
                     /\ lpc' = "done"
                ELSE /\ lcur' = c
                     /\ lret' = ListReturn(<<>>, FALSE)
                     /\ lpc' = IF sizing /\ Drained(c) THEN "done"
                                                      ELSE "draining"
  /\ UNCHANGED <<serverVars, iterVars, concVars, crud>>

\* One round of cursor.all's loop inside List: cursor.next fetches a page,
\* the page is appended, offset and total are updated, the loop test is
\* taken again; List returns when the loop ends or the fetch fails.
ListDrain ==
  /\ lpc = "draining"
  /\ lreqs < MaxReqs
  /\ lreqs' = lreqs + 1
  /\ lreq' = ItemRequest(lcur, lcur.offset)
  /\ \E ok \in BOOLEAN :
       IF ~ok
         THEN /\ lret' = ListReturn(lacc, TRUE)
              /\ lpc' = "done"
              /\ UNCHANGED <<lcur, lacc>>
         ELSE LET page == ServerPage(ItemRequest(lcur, lcur.offset))
                  c == CursorAdvance(lcur, page, ServerTotal)
              IN  /\ lcur' = c
                  /\ lacc' = lacc \o page
                  /\ IF Drained(c)
                       THEN /\ lret' = ListReturn(lacc \o page, FALSE)
                            /\ lpc' = "done"
                       ELSE /\ lpc' = "draining"
                            /\ UNCHANGED lret
  /\ UNCHANGED <<serverVars, ldirty, iterVars, concVars, crud>>

-----------------------------------------------------------------------------
(* StoryService.Iterate / EpicService.Iterate and StoryCursor.Next /       *)
(* EpicCursor.Next, called by one caller at a time.                        *)

\* The nil *Story / *Epic.
Nil == 0

Callers == {"A", "B"}

AllIdle == \A c \in Callers : cpc[c] = "idle"

\* The limit Iterate hands to newCursor.
IterateLimit == PageLimit

NoReturn == [item |-> Nil, err |-> "none"]

\* Iterate: newCursor, then &StoryCursor{cursor, make([]*Story, 0)}.
Iterate ==
  /\ AllIdle
  /\ \E ok \in BOOLEAN :
       LET sizing == NewCursorSizes(IterateLimit)
       IN  /\ creqs' = IF sizing THEN 1 ELSE 0
           /\ IF sizing /\ ~ok
                THEN /\ cst' = "none"
                     /\ ccur' = NewCursor(IterateLimit, 0)
                ELSE /\ cst' = "open"
                     /\ ccur' = NewCursor(IterateLimit,
                                          IF sizing THEN ServerTotal ELSE 0)
  /\ buff' = <<>>
  /\ delivered' = <<>>
  /\ ret' = NoReturn
  /\ grown' = FALSE
  /\ raced' = FALSE
  /\ UNCHANGED <<serverVars, listVars, tick, cpc, roff, crud>>

\* Next with its first test inverted.
NeedsFetchInverted(b) == Len(b) # 0

\* Next refilling one item early.
NeedsFetchEarly(b) == Len(b) <= 1

\* Next's first test: the buffer is refilled when it is empty.
NeedsFetch(b) == Len(b) = 0

\* Next popping the back of the buffer.
NextResultBack(b) ==
  IF Len(b) = 0
    THEN [item |-> Nil, err |-> "EOF", buff |-> b]
    ELSE [item |-> b[Len(b)], err |-> "nil", buff |-> SubSeq(b, 1, Len(b) - 1)]

\* Next returning the front item without re-slicing the buffer.
NextResultKept(b) ==
  IF Len(b) = 0
    THEN [item |-> Nil, err |-> "EOF", buff |-> b]
    ELSE [item |-> Head(b), err |-> "nil", buff |-> b]

\* Next without its `if err != nil` after c.next: it falls through to the
\* second test.
NextFetchIgnored(b) ==
  IF Len(b) = 0
    THEN [item |-> Nil, err |-> "EOF", buff |-> b]
    ELSE [item |-> Head(b), err |-> "nil", buff |-> Tail(b)]

\* Next when c.next returned an error: return nil, err.
NextFetchFailed(b) == [item |-> Nil, err |-> "error", buff |-> b]

\* Next's second test: io.EOF on an empty buffer, else pop the front item.
NextResult(b) ==
  IF Len(b) = 0
    THEN [item |-> Nil, err |-> "EOF", buff |-> b]
    ELSE [item |-> Head(b), err |-> "nil", buff |-> Tail(b)]

\* A call of Next returns r to its caller.
Returns(r) ==
  /\ ret' = [item |-> r.item, err |-> r.err]
  /\ buff' = r.buff
  /\ delivered' = IF r.err = "nil" THEN Append(delivered, r.item)
                                   ELSE delivered
  /\ cst' = IF r.err = "error" THEN "failed" ELSE cst
  /\ tick' = 1 - tick
  /\ grown' = FALSE

\* One whole call of Next. After an error the caller stops iterating.
StoryCursorNext ==
  /\ cst = "open"
  /\ AllIdle
  /\ IF NeedsFetch(buff)
       THEN /\ creqs < MaxFetches
            /\ creqs' = creqs + 1
            /\ \E ok \in BOOLEAN :
                 IF ok
                   THEN LET page ==
                              ServerPage(ItemRequest(ccur, ccur.offset))
                        IN  /\ ccur' = CursorAdvance(ccur, page, ServerTotal)
                            /\ Returns(NextResult(buff \o page))
                   ELSE /\ ccur' = ccur
                        /\ Returns(NextFetchFailed(buff))
       ELSE /\ UNCHANGED <<creqs, ccur>>
            /\ Returns(NextResult(buff))
  /\ UNCHANGED <<serverVars, listVars, concVars, crud>>

-----------------------------------------------------------------------------
(* Next, statement by statement, for callers that share one cursor: the    *)
(* buffer test and request, the response with the offset update, and the   *)
(* second test with the pop are not synchronized with one another.         *)

\* len(c.buff) == 0 is read; when it holds c.next builds its request from
\* the offset it reads now and the blocking round trip begins.
NextEnter(c) ==
  /\ cst = "open"
  /\ cpc[c] = "idle"
  /\ raced' = (raced \/ \E d \in Callers \ {c} : cpc[d] # "idle")
  /\ IF NeedsFetch(buff)
       THEN /\ creqs < MaxFetches
            /\ creqs' = creqs + 1
            /\ cpc' = [cpc EXCEPT ![c] = "recv"]
            /\ roff' = [roff EXCEPT ![c] = ccur.offset]
       ELSE /\ cpc' = [cpc EXCEPT ![c] = "pop"]
            /\ UNCHANGED <<creqs, roff>>
  /\ UNCHANGED <<cst, ccur, buff, delivered, ret, tick, grown>>
  /\ UNCHANGED <<serverVars, listVars, crud>>

\* The response arrives: the page is appended to c.buff, offset and total
\* are updated; or the round trip failed and Next returns the error.
NextRecv(c) ==
  /\ cpc[c] = "recv"
  /\ \E ok \in BOOLEAN :
       IF ok
         THEN LET page == ServerPage(ItemRequest(ccur, roff[c]))
              IN  /\ ccur' = CursorAdvance(ccur, page, ServerTotal)
                  /\ buff' = buff \o page
                  /\ cpc' = [cpc EXCEPT ![c] = "pop"]
                  /\ UNCHANGED <<cst, delivered, ret, tick, grown>>
         ELSE /\ ccur' = ccur
              /\ Returns(NextFetchFailed(buff))
              /\ cpc' = [cpc EXCEPT ![c] = "idle"]
  /\ UNCHANGED <<creqs, roff, raced, serverVars, listVars, crud>>

\* The second test of len(c.buff) and the pop; Next returns.
NextPop(c) ==
  /\ cpc[c] = "pop"
  /\ Returns(NextResult(buff))
  /\ cpc' = [cpc EXCEPT ![c] = "idle"]
  /\ UNCHANGED <<ccur, creqs, roff, raced, serverVars, listVars, crud>>

-----------------------------------------------------------------------------
(* EpicService.Get / EpicService.Update and StoryService.Update: the       *)
(* request each one builds.                                                *)

Ids == 0..MaxId

Digits == <<"0", "1", "2", "3", "4", "5", "6", "7", "8", "9">>

\* fmt's %v of a non-negative int: its decimal digits.
RECURSIVE Itoa(_)
Itoa(n) ==
  IF n < 10 THEN <<Digits[n + 1]>>
            ELSE Itoa(n \div 10) \o <<Digits[(n % 10) + 1]>>

\* fmt.Sprintf("projects/%v/epics/%v", projectID, epicID)
EpicGetPath(projectID, epicID) ==
  <<"projects/">> \o Itoa(projectID) \o <<"/epics/">> \o Itoa(epicID)

\* fmt.Sprintf("projects/%v/stories/%v", projectID, epicID)
EpicUpdatePath(projectID, epicID) ==
  <<"projects/">> \o Itoa(projectID) \o <<"/stories/">> \o Itoa(epicID)

\* fmt.Sprintf("projects/%v/stories/%v", projectId, storyId)
StoryUpdatePath(projectId, storyId) ==
  <<"projects/">> \o Itoa(projectId) \o <<"/stories/">> \o Itoa(storyId)

EpicGet ==
  /\ \E p \in Ids, e \in Ids :
       crud' = [op |-> "EpicService.Get", method |-> "GET", projectID |-> p,
                id |-> e, path |-> EpicGetPath(p, e)]
  /\ UNCHANGED <<serverVars, listVars, iterVars, concVars>>

EpicUpdate ==
  /\ \E p \in Ids, e \in Ids :
       crud' = [op |-> "EpicService.Update", method |-> "PUT",
                projectID |-> p, id |-> e, path |-> EpicUpdatePath(p, e)]
  /\ UNCHANGED <<serverVars, listVars, iterVars, concVars>>

StoryUpdate ==
  /\ \E p \in Ids, e \in Ids :
       crud' = [op |-> "StoryService.Update", method |-> "PUT",
                projectID |-> p, id |-> e, path |-> StoryUpdatePath(p, e)]
  /\ UNCHANGED <<serverVars, listVars, iterVars, concVars>>

-----------------------------------------------------------------------------
(* The collection changes on the server between requests.                  *)

ServerAdd ==
  /\ Len(items) < MaxTotal
  /\ items' = Append(items, ItemAt(Len(items) + 1))
  /\ ldirty' = TRUE
  /\ grown' = TRUE
  /\ UNCHANGED <<kind, pageCap, lpc, lcur, lacc, lret, lreqs, lreq>>
  /\ UNCHANGED <<cst, ccur, buff, delivered, creqs, ret, tick>>
  /\ UNCHANGED <<concVars, crud>>

ServerRemove ==
  /\ Len(items) > 0
  /\ items' = SubSeq(items, 1, Len(items) - 1)
  /\ ldirty' = TRUE
  /\ UNCHANGED <<kind, pageCap, lpc, lcur, lacc, lret, lreqs, lreq>>
  /\ UNCHANGED <<iterVars, concVars, crud>>

-----------------------------------------------------------------------------

NoCrud == [op |-> "none", method |-> "", projectID |-> 0, id |-> 0,
           path |-> <<>>]

Init ==
  /\ kind \in {"stories", "epics"}
  /\ \E n \in 0..MaxTotal : items = Collection(n)
  /\ pageCap \in PageLimit..MaxPageCap
  /\ lpc = "idle"
  /\ lcur = NewCursor(ListLimit, 0)
  /\ lacc = <<>>
  /\ lret = ListReturn(<<>>, FALSE)
  /\ lreqs = 0
  /\ lreq = NoRequest
  /\ ldirty = FALSE
  /\ cst = "none"
  /\ ccur = NewCursor(IterateLimit, 0)
  /\ buff = <<>>
  /\ delivered = <<>>
  /\ creqs = 0
  /\ ret = NoReturn
  /\ tick = 0
  /\ grown = FALSE
  /\ cpc = [c \in Callers |-> "idle"]
  /\ roff = [c \in Callers |-> 0]
  /\ raced = FALSE
  /\ crud = NoCrud

\* List against a collection that changes between requests.
Next ==
  \/ ListCall
  \/ ListDrain
  \/ ServerAdd
  \/ ServerRemove

Spec == Init /\ [][Next]_vars

\* cursor.all is a loop of blocking calls: it keeps running until it ends.
FairSpec == Spec /\ WF_vars(ListDrain)

\* Lazy iteration against a collection that changes between calls.
IterNext ==
  \/ Iterate
  \/ StoryCursorNext
  \/ ServerAdd
  \/ ServerRemove

IterSpec == Init /\ [][IterNext]_vars

\* List and Iterate / Next over one unchanging collection.
EquivNext ==
  \/ ListCall
  \/ ListDrain
  \/ Iterate
  \/ StoryCursorNext

EquivSpec == Init /\ [][EquivNext]_vars

\* Two callers of Next on one cursor over an unchanging collection.
ConcNext ==
  \/ Iterate
  \/ \E c \in Callers : NextEnter(c)
  \/ \E c \in Callers : NextRecv(c)
  \/ \E c \in Callers : NextPop(c)

ConcSpec == Init /\ [][ConcNext]_vars

\* The single-resource requests.
CrudNext ==
  \/ EpicGet
  \/ EpicUpdate
  \/ StoryUpdate

CrudInit ==
  /\ Init
  /\ kind = "epics"
  /\ items = <<>>
  /\ pageCap = PageLimit

CrudSpec == CrudInit /\ [][CrudNext]_vars

-----------------------------------------------------------------------------
(* Properties.                                                             *)

IsPrefix(s, t) == Len(s) <= Len(t) /\ s = SubSeq(t, 1, Len(s))

ListOk == lpc = "done" /\ ~lret.err

\* Requests after the sizing request when the server answers a limit of n
\* items with pages of at most pageCap.
PagesFor(n) == (n + Min(n, pageCap) - 1) \div Min(n, pageCap)

\* C1: List over a collection that does not change during the call returns
\* exactly the server's items, each once, in server order, whatever page
\* size the server splits them into.
C1_ListReturnsAll == (ListOk /\ ~ldirty) => lret.stories = items

C1_Witness ==
  /\ ListOk /\ ~ldirty
  /\ Len(items) > pageCap
  /\ lreqs >= 3
  /\ lret.stories = items

\* C2: over one unchanging collection, the items Next returned up to its
\* io.EOF are the sequence List returned, item for item.
C2_IterateMatchesList ==
  (ListOk /\ cst = "open" /\ ret.err = "EOF") => delivered = lret.stories

C2_Witness ==
  /\ ListOk /\ cst = "open" /\ ret.err = "EOF"
  /\ Len(delivered) > PageLimit
  /\ delivered = lret.stories

\* C3: when List returns an error it returns no items, also after pages
\* were fetched successfully.
C3_AllOrNothing == (lpc = "done" /\ lret.err) => lret.stories = <<>>

C3_Witness ==
  /\ lpc = "done" /\ lret.err
  /\ lreqs = 3
  /\ Len(lacc) = PageLimit
  /\ lret.stories = <<>>

\* C4: while the reported total changes between fetches, the drain goes on
\* only while the offset is below the latest reported total, List returns
\* successfully only once the offset has reached it, and a drain that has
\* begun always ends.
C4_DrainTerminates ==
  /\ [](ListOk => lcur.offset >= lcur.total)
  /\ [](lpc = "draining" => (lcur.offset < lcur.total /\ lreqs < MaxReqs))
  /\ ((lpc = "draining") ~> (lpc = "done"))

C4_Witness ==
  /\ ListOk
  /\ lreqs >= 3
  /\ lcur.total < lcur.first

\* C5 as stated: a call of Next that follows an io.EOF and returns no
\* error returns io.EOF again.
C5_EOFAgain ==
  [][(cst = "open" /\ ret.err = "EOF" /\ tick' # tick /\ ret'.err # "error")
       => (ret'.err = "EOF" /\ ret'.item = Nil)]_vars

\* C5 amended: a call of Next that follows an io.EOF returns io.EOF again
\* when it returns no error and the server has gained no item in between.
C5_EOFAgainUnlessGrown ==
  [][(cst = "open" /\ ret.err = "EOF" /\ ~grown /\ tick' # tick
        /\ ret'.err # "error")
       => (ret'.err = "EOF" /\ ret'.item = Nil)]_vars

C5_Witness ==
  /\ cst = "open" /\ ret.err = "EOF" /\ ~grown
  /\ creqs = 3
  /\ Len(items) \in 1..PageLimit
  /\ delivered = items

\* C6: the first call of Next on a cursor made by Iterate, the collection
\* being empty, leaves exactly one request attempted and returns io.EOF
\* with no item (the error of the round trip when that one request fails).
C6_EmptyIterate ==
  [][(cst = "open" /\ ret.err = "none" /\ items = <<>> /\ tick' # tick)
       => /\ creqs' = 1
          /\ ret'.item = Nil
          /\ ret'.err \in {"EOF", "error"}
          /\ (cst' = "open" => ret'.err = "EOF")]_vars

C6_Witness ==
  /\ cst = "open" /\ ret.err = "EOF"
  /\ creqs = 1
  /\ items = <<>> /\ delivered = <<>> /\ ~ldirty

C8_FetchIffEmpty ==
  [][(tick' # tick) =>
       /\ (creqs' # creqs) <=> (Len(buff) = 0)
       /\ (Len(buff) > 0 =>
             /\ ret' = [item |-> Head(buff), err |-> "nil"]
             /\ buff' = Tail(buff)
             /\ delivered' = Append(delivered, Head(buff))
             /\ ccur' = ccur
             /\ creqs' = creqs)]_vars

C8_Witness ==
  /\ cst = "open" /\ ret.err = "nil"
  /\ creqs = 1
  /\ Len(delivered) >= 2
  /\ Len(buff) > 0

\* C9: the items handed out are the server's sequence, each once and in
\* order, in every execution where no two calls of Next overlap; with
\* overlapping calls an item is handed out twice (the witness).
C9_SerialCallsDeliverInOrder ==
  (cst # "none" /\ ~raced) =>
     /\ IsPrefix(delivered, items)
     /\ (ret.err = "EOF" => delivered = items)

C9_Witness ==
  /\ raced
  /\ \E i, j \in 1..Len(delivered) : i < j /\ delivered[i] = delivered[j]

\* C10: the request of EpicService.Update goes to the epic that
\* EpicService.Get reads for the same ids.
C10_UpdateAddressesEpic ==
  crud.op = "EpicService.Update"
    => crud.path = EpicGetPath(crud.projectID, crud.id)

====
